---- MODULE Spec2Model ----
(***************************************************************************)
(* Model of ui/src/components/ProjectSelector.tsx: the project selector    *)
(* with its three confirmation flows (delete, detach, reattach), the       *)
(* asynchronous mutations they dispatch and the selection they reconcile.  *)
(*                                                                         *)
(* The component is a React function component.  Every handler is a        *)
(* closure over the props and state of the render that created it, so the  *)
(* part of an async handler that runs after its `await` still reads the    *)
(* values captured when the handler was invoked.  A dispatched mutation is *)
(* therefore recorded together with the values its continuation reads.     *)
(***************************************************************************)
EXTENDS Integers, FiniteSets, Sequences, TLC

\* Number of distinct project names the registry may hold.
MaxProjects == 2

\* `null` in the source (string | null).
None == 0

ProjectNames == 1..MaxProjects

Kinds == {"delete", "detach", "reattach"}

\* The rows the caller may supply in the `projects` prop (ProjectSummary,
\* reduced to the fields the handlers and the row buttons read). The list is
\* an input of every render: a click lands on any such row.
ProjectSummary == [name : ProjectNames, is_detached : BOOLEAN]

VARIABLES
    isLoading,            \* prop: the list is loading
    selectedProject,      \* prop: owned by the caller, set through onSelectProject
    isOpen,               \* useState: the dropdown menu is open
    projectToDelete,      \* useState: pending target of the delete dialog
    projectToDetach,      \* useState: pending target of the detach dialog
    projectToReattach,    \* useState: pending target of the reattach dialog
    isPending,            \* per kind, the isPending flag of its mutation hook
    calls,                \* mutation calls dispatched and not yet settled
    lastEvent             \* history: the handler that ran last and what it did

vars == <<isLoading, selectedProject, isOpen,
          projectToDelete, projectToDetach, projectToReattach, isPending, calls, lastEvent>>

\* The component's own state together with the selection it drives, and the
\* outputs of one handler run: `logged`, it has written to console.error;
\* `raised`, its promise was rejected (an error left the handler).
State ==
    [selectedProject |-> selectedProject,
     isOpen |-> isOpen,
     projectToDelete |-> projectToDelete,
     projectToDetach |-> projectToDetach,
     projectToReattach |-> projectToReattach,
     isPending |-> isPending,
     calls |-> calls,
     logged |-> FALSE,
     raised |-> FALSE]

\* A mutation call in flight: its kind, its argument, and what the handler
\* that dispatched it reads once the call has settled. That handler is a
\* closure over the selectedProject and projectToDelete of the render that
\* created it; of the two it reads only `selectedProject === projectToDelete`,
\* whose value is fixed at the confirm and is kept as wasSelected.
Call(kind, target, wasSelected) ==
    [kind |-> kind, target |-> target, wasSelected |-> wasSelected]

----------------------------------------------------------------------------
(* Collaborators *)

\* The caller's selection callback: sets the selection unconditionally.
onSelectProject(s, name) == [s EXCEPT !.selectedProject = name]

\* Variant of mutateAsync: the call starts and isPending is left as it was.
mutateAsyncFlagNotRaised(s, c) == [s EXCEPT !.calls = @ \cup {c}]

\* useMutation().mutateAsync: raises isPending and starts the external call.
mutateAsync(s, c) ==
    [s EXCEPT !.isPending[c.kind] = TRUE, !.calls = @ \cup {c}]

\* The promise of a call settles: isPending is cleared, the call is over.
settled(s, c) ==
    [s EXCEPT !.isPending[c.kind] = FALSE, !.calls = @ \ {c}]

\* Variant of the isLoading prop: every dialog is given the isPending flag of
\* the delete hook.
dialogIsLoadingOfDelete(s, kind) == s.isPending["delete"]

\* The isLoading prop each ConfirmDialog is given: the isPending flag of the
\* hook of its own kind.
dialogIsLoading(s, kind) == s.isPending[kind]

\* ConfirmDialog: the confirm button is disabled while isLoading.
ConfirmEnabled(s, kind) == ~dialogIsLoading(s, kind)

\* ConfirmDialog: an open dialog can be dismissed, which runs onCancel.
CancelEnabled(target) == target # None

\* console.error
consoleError(s) == [s EXCEPT !.logged = TRUE]

\* Variant of the row: the detach button is rendered on every row.
offersDetachOnEveryRow(project, kind) ==
    CASE kind = "reattach" -> project.is_detached
      [] kind = "detach" -> TRUE
      [] kind = "delete" -> TRUE

\* The buttons a row renders: reattach on a detached row, detach on any
\* other, delete on every row.
offers(project, kind) ==
    CASE kind = "reattach" -> project.is_detached
      [] kind = "detach" -> ~project.is_detached
      [] kind = "delete" -> TRUE

----------------------------------------------------------------------------
(* Handlers, as transformers of State *)

\* Variant of handleProjectCreated: the name is selected and the menu is left
\* as it was.
handleProjectCreatedKeepsMenu(s, projectName) == onSelectProject(s, projectName)

handleProjectCreated(s, projectName) ==
    [onSelectProject(s, projectName) EXCEPT !.isOpen = FALSE]

\* Variant of the row's onSelect: the selection also closes every dialog.
rowOnSelectClosesDialogs(s, projectName) ==
    [onSelectProject(s, projectName) EXCEPT !.isOpen = FALSE,
                                            !.projectToDelete = None,
                                            !.projectToDetach = None,
                                            !.projectToReattach = None]

\* Row of the menu: onSelect, after which the menu closes itself.
rowOnSelect(s, projectName) ==
    [onSelectProject(s, projectName) EXCEPT !.isOpen = FALSE]

handleDeleteClick(s, projectName) == [s EXCEPT !.projectToDelete = projectName]

\* Variant of handleDetachClick: an open dialog keeps its first target.
handleDetachClickKeepsFirst(s, projectName) ==
    IF s.projectToDetach # None THEN s ELSE [s EXCEPT !.projectToDetach = projectName]

handleDetachClick(s, projectName) == [s EXCEPT !.projectToDetach = projectName]

\* Variant of handleReattachClick without stopPropagation: the click reaches
\* the row, whose onSelect runs as well.
handleReattachClickPropagates(s, projectName) ==
    rowOnSelect([s EXCEPT !.projectToReattach = projectName], projectName)

handleReattachClick(s, projectName) == [s EXCEPT !.projectToReattach = projectName]

\* Variant of handleCancelDelete: one cancel closes the detach dialog as well.
handleCancelDeleteClosesAll(s) ==
    [s EXCEPT !.projectToDelete = None, !.projectToDetach = None]

handleCancelDelete(s) == [s EXCEPT !.projectToDelete = None]

cancelDetach(s) == [s EXCEPT !.projectToDetach = None]

cancelReattach(s) == [s EXCEPT !.projectToReattach = None]

\* Variant of handleConfirmDelete: the call is made for the selected project
\* instead of the pending target.
handleConfirmDeleteOfSelected(s) ==
    IF s.projectToDelete = None THEN s
    ELSE mutateAsync(s, Call("delete", s.selectedProject, TRUE))

\* handleConfirmDelete up to its await.
handleConfirmDelete(s) ==
    IF s.projectToDelete = None THEN s
    ELSE mutateAsync(s, Call("delete", s.projectToDelete, s.selectedProject = s.projectToDelete))

\* handleConfirmDelete after its await, the call having succeeded: the
\* comparison is the one of the values captured at the confirm.
deleteResolved(s, c) ==
    LET r == IF c.wasSelected THEN onSelectProject(s, None) ELSE s
    IN  [settled(r, c) EXCEPT !.projectToDelete = None]

\* Variant of the catch branch of handleConfirmDelete: the failure is logged
\* and the dialog is left open.
deleteRejectedKeepsDialog(s, c) == consoleError(settled(s, c))

\* handleConfirmDelete, catch branch.
deleteRejected(s, c) ==
    [consoleError(settled(s, c)) EXCEPT !.projectToDelete = None]

handleConfirmDetach(s) ==
    IF s.projectToDetach = None THEN s
    ELSE mutateAsync(s, Call("detach", s.projectToDetach, FALSE))

\* Variant of handleConfirmDetach after the await: every dialog is closed.
detachResolvedClosesAll(s, c) ==
    [settled(s, c) EXCEPT !.projectToDelete = None,
                          !.projectToDetach = None,
                          !.projectToReattach = None]

detachResolved(s, c) == [settled(s, c) EXCEPT !.projectToDetach = None]

\* Variant of the catch branch of handleConfirmDetach: the error is logged and
\* thrown again.
detachRejectedRethrows(s, c) ==
    [consoleError(settled(s, c)) EXCEPT !.raised = TRUE]

detachRejected(s, c) ==
    [consoleError(settled(s, c)) EXCEPT !.projectToDetach = None]

\* Variant of handleConfirmReattach without its early return.
handleConfirmReattachUnguarded(s) ==
    mutateAsync(s, Call("reattach", s.projectToReattach, FALSE))

handleConfirmReattach(s) ==
    IF s.projectToReattach = None THEN s
    ELSE mutateAsync(s, Call("reattach", s.projectToReattach, FALSE))

\* Variant of handleConfirmReattach after the await: the selection is cleared
\* when the project reattached is the selected one.
reattachResolvedClearsSelection(s, c) ==
    LET r == IF s.selectedProject = c.target THEN onSelectProject(s, None) ELSE s
    IN  [settled(r, c) EXCEPT !.projectToReattach = None]

reattachResolved(s, c) == [settled(s, c) EXCEPT !.projectToReattach = None]

\* Variant of the catch branch of handleConfirmReattach: the failure is logged
\* and the dialog is left open.
reattachRejectedKeepsDialog(s, c) == consoleError(settled(s, c))

reattachRejected(s, c) ==
    [consoleError(settled(s, c)) EXCEPT !.projectToReattach = None]

----------------------------------------------------------------------------
(* History *)

\* The pending target of one kind.
pending(s, kind) ==
    CASE kind = "delete" -> s.projectToDelete
      [] kind = "detach" -> s.projectToDetach
      [] kind = "reattach" -> s.projectToReattach

\* The calls of one kind in flight.
inFlight(s, kind) == {c \in s.calls : c.kind = kind}

\* What is kept of the handler that ran last, taking s to t: its type and
\* kind; for a click, a row selection or a name yielded by the wizard, the
\* project; for a click on detach or reattach, whether the row was detached;
\* for a click, whether the pending
\* target of another project was replaced; for a settlement, the outcome; the
\* number of calls started and of calls ended; the kinds whose pending target
\* was set to a project other than by a click on their button; the kinds other
\* than the handler's own whose pending target or isPending flag changed;
\* whether console.error was written; whether an error left the handler; and,
\* for every handler but the row selection and the wizard, whether the
\* selection changed.
Event(type, kind, target, ok, s, t) ==
    [type |-> type,
     kind |-> kind,
     target |-> target,
     ok |-> ok,
     detached |-> FALSE,
     replaced |-> type = "click" /\ pending(s, kind) \notin {None, target},
     dispatched |-> Cardinality(t.calls \ s.calls),
     ended |-> Cardinality(s.calls \ t.calls),
     opened |-> {k \in Kinds : /\ pending(t, k) \notin {None, pending(s, k)}
                               /\ ~(type = "click" /\ kind = k)},
     logged |-> t.logged,
     raised |-> t.raised,
     touched |-> {k \in Kinds \ {kind} : \/ pending(t, k) # pending(s, k)
                                          \/ t.isPending[k] # s.isPending[k]},
     selection |-> /\ type \notin {"select", "created"}
                   /\ t.selectedProject # s.selectedProject]

\* The history is kept unless it was switched off at the start.
Off == [type |-> "off"]

Record(e) == IF lastEvent = Off THEN lastEvent ELSE e

Apply(t) ==
    /\ selectedProject' = t.selectedProject
    /\ isOpen' = t.isOpen
    /\ projectToDelete' = t.projectToDelete
    /\ projectToDetach' = t.projectToDetach
    /\ projectToReattach' = t.projectToReattach
    /\ isPending' = t.isPending
    /\ calls' = t.calls

\* One handler run.
Run(type, kind, target, ok, t) ==
    /\ Apply(t)
    /\ lastEvent' = Record(Event(type, kind, target, ok, State, t))
    /\ UNCHANGED isLoading

\* A click on the button of one kind of a row: the row renders the button, the
\* handler runs and the click goes no further.
Click(kind, project, t) ==
    /\ isOpen
    /\ offers(project, kind)
    /\ Apply(t)
    /\ lastEvent' = Record([Event("click", kind, project.name, FALSE, State, t)
                               EXCEPT !.detached = /\ kind # "delete"
                                                   /\ project.is_detached])
    /\ UNCHANGED isLoading

----------------------------------------------------------------------------
\* The state after the first render, the list being loaded.
Init ==
    /\ isLoading = FALSE
    /\ selectedProject \in ProjectNames \cup {None}
    /\ isOpen = FALSE
    /\ projectToDelete = None
    /\ projectToDetach = None
    /\ projectToReattach = None
    /\ isPending = [k \in Kinds |-> FALSE]
    /\ calls = {}
    /\ lastEvent = Event("other", "none", None, FALSE, State, State)

(* The menu *)

\* The trigger button opens the menu; it is disabled while isLoading.
OpenMenu ==
    /\ ~isLoading
    /\ ~isOpen
    /\ Run("other", "none", None, FALSE, [State EXCEPT !.isOpen = TRUE])

\* onOpenChange(false): escape or a click outside.
CloseMenu ==
    /\ isOpen
    /\ Run("other", "none", None, FALSE, [State EXCEPT !.isOpen = FALSE])

SelectRow ==
    /\ isOpen
    /\ \E projectName \in ProjectNames :
          Run("select", "none", projectName, FALSE, rowOnSelect(State, projectName))

(* The creation wizard *)

\* showNewProjectModal only decides whether NewProjectModal is rendered. The
\* wizard is an external collaborator that calls onProjectCreated when it
\* yields a name; it is let to do so in any state.

\* "New Project" item of the menu: onSelect shows the wizard, after which the
\* menu closes itself.
NewProjectItem ==
    /\ isOpen
    /\ Run("other", "none", None, FALSE, [State EXCEPT !.isOpen = FALSE])

\* NewProjectModal onProjectCreated: the wizard yields a name.
ProjectCreated ==
    /\ \E projectName \in ProjectNames :
          Run("created", "none", projectName, FALSE,
              handleProjectCreated(State, projectName))

(* Clicks on the action buttons of a row *)

DeleteClick ==
    \E project \in ProjectSummary :
        Click("delete", project, handleDeleteClick(State, project.name))

DetachClick ==
    \E project \in ProjectSummary :
        Click("detach", project, handleDetachClick(State, project.name))

ReattachClick ==
    \E project \in ProjectSummary :
        Click("reattach", project, handleReattachClick(State, project.name))

(* Cancel of a dialog *)

CancelDelete ==
    /\ CancelEnabled(projectToDelete)
    /\ Run("cancel", "delete", None, FALSE, handleCancelDelete(State))

CancelDetach ==
    /\ CancelEnabled(projectToDetach)
    /\ Run("cancel", "detach", None, FALSE, cancelDetach(State))

CancelReattach ==
    /\ CancelEnabled(projectToReattach)
    /\ Run("cancel", "reattach", None, FALSE, cancelReattach(State))

(* Confirm of a dialog: the handler up to its await *)

ConfirmDelete ==
    /\ ConfirmEnabled(State, "delete")
    /\ Run("confirm", "delete", None, FALSE, handleConfirmDelete(State))

ConfirmDetach ==
    /\ ConfirmEnabled(State, "detach")
    /\ Run("confirm", "detach", None, FALSE, handleConfirmDetach(State))

ConfirmReattach ==
    /\ ConfirmEnabled(State, "reattach")
    /\ Run("confirm", "reattach", None, FALSE, handleConfirmReattach(State))

(* Settlement of a call: the handler after its await *)

DeleteSucceeds ==
    \E c \in inFlight(State, "delete") :
        Run("settle", "delete", None, TRUE, deleteResolved(State, c))

DeleteFails ==
    \E c \in inFlight(State, "delete") :
        Run("settle", "delete", None, FALSE, deleteRejected(State, c))

DetachSucceeds ==
    \E c \in inFlight(State, "detach") :
        Run("settle", "detach", None, TRUE, detachResolved(State, c))

DetachFails ==
    \E c \in inFlight(State, "detach") :
        Run("settle", "detach", None, FALSE, detachRejected(State, c))

ReattachSucceeds ==
    \E c \in inFlight(State, "reattach") :
        Run("settle", "reattach", None, TRUE, reattachResolved(State, c))

ReattachFails ==
    \E c \in inFlight(State, "reattach") :
        Run("settle", "reattach", None, FALSE, reattachRejected(State, c))

Next ==
    \/ OpenMenu
    \/ CloseMenu
    \/ SelectRow
    \/ NewProjectItem
    \/ ProjectCreated
    \/ DeleteClick
    \/ DetachClick
    \/ ReattachClick
    \/ CancelDelete
    \/ CancelDetach
    \/ CancelReattach
    \/ ConfirmDelete
    \/ ConfirmDetach
    \/ ConfirmReattach
    \/ DeleteSucceeds
    \/ DeleteFails
    \/ DetachSucceeds
    \/ DetachFails
    \/ ReattachSucceeds
    \/ ReattachFails

Spec == Init /\ [][Next]_vars

(* The caller's props *)

\* The caller changes the isLoading prop.
LoadingChanged ==
    /\ isLoading' = ~isLoading
    /\ UNCHANGED <<selectedProject, isOpen, projectToDelete, projectToDetach,
                   projectToReattach, isPending, calls, lastEvent>>

\* The first render, the list loading or loaded; no history is kept.
InitProps ==
    /\ isLoading \in BOOLEAN
    /\ selectedProject \in ProjectNames \cup {None}
    /\ isOpen = FALSE
    /\ projectToDelete = None
    /\ projectToDetach = None
    /\ projectToReattach = None
    /\ isPending = [k \in Kinds |-> FALSE]
    /\ calls = {}
    /\ lastEvent = Off

NextProps == Next \/ LoadingChanged

\* The component under a caller that changes isLoading at any time.
SpecProps == InitProps /\ [][NextProps]_vars

\* The component under a caller that leaves isLoading as it is, every external
\* call settling at last: a call in flight keeps its two settlements enabled
\* until one of them is taken.
SpecFair ==
    /\ InitProps
    /\ [][Next]_vars
    /\ WF_vars(DeleteSucceeds \/ DeleteFails)
    /\ WF_vars(DetachSucceeds \/ DetachFails)
    /\ WF_vars(ReattachSucceeds \/ ReattachFails)

----------------------------------------------------------------------------
(* Properties *)

\* The handler that ran last is of this type and kind.
Ran(type, kind) == lastEvent.type = type /\ lastEvent.kind = kind

\* The step settles call c with this outcome.
Settles(c, ok) ==
    /\ c \in calls
    /\ c \notin calls'
    /\ lastEvent'.type = "settle"
    /\ lastEvent'.kind = c.kind
    /\ lastEvent'.ok = ok

\* C1: after a delete(p) call settles successfully, the selection is not p,
\* whatever was selected while the call was in flight.
C1_DeletedNotSelected ==
    [][\A c \in inFlight(State, "delete") :
          Settles(c, TRUE) => selectedProject' # c.target]_vars

\* C2: if the selection is not p when a delete(p) call settles, the
\* settlement leaves the selection unchanged, on success and on failure.
C2_OtherSelectionKept ==
    [][\A c \in inFlight(State, "delete") :
          ((Settles(c, TRUE) \/ Settles(c, FALSE)) /\ selectedProject # c.target)
              => selectedProject' = selectedProject]_vars

\* C3: a confirm on a pending target (k, p) starts exactly one call, of kind k
\* and argument p, and it is then the only call of kind k in flight; no other
\* handler, and no confirm without a pending target, starts a call.
C3_ConfirmDispatchesOne ==
    /\ \A k \in Kinds :
          (Ran("confirm", k) /\ pending(State, k) # None) =>
              /\ lastEvent.dispatched = 1
              /\ \E c \in calls :
                    /\ inFlight(State, k) = {c}
                    /\ c.target = pending(State, k)
    /\ lastEvent.dispatched > 0 =>
          /\ lastEvent.type = "confirm"
          /\ pending(State, lastEvent.kind) # None

C3_Witness ==
    /\ Ran("confirm", "delete")
    /\ lastEvent.dispatched = 1
    /\ projectToDelete # None
    /\ projectToDelete # selectedProject

\* C4: from a state where the dialog of kind k is closed, opening k on p and
\* then cancelling k gives back the very same state (pending targets, calls in
\* flight, isPending flags, selection and menu); neither handler starts
\* a call or changes the selection.
C4_OpenCancelIdentity ==
    /\ \A p \in ProjectNames :
          /\ projectToDelete = None =>
                handleCancelDelete(handleDeleteClick(State, p)) = State
          /\ projectToDetach = None =>
                cancelDetach(handleDetachClick(State, p)) = State
          /\ projectToReattach = None =>
                cancelReattach(handleReattachClick(State, p)) = State
    /\ lastEvent.type \in {"click", "cancel"} =>
          /\ lastEvent.dispatched = 0
          /\ ~lastEvent.selection

C4_Witness ==
    /\ Ran("cancel", "delete")
    /\ projectToDelete = None
    /\ projectToDetach # None
    /\ selectedProject # None
    /\ isOpen

\* C5: right after a call of kind k has settled, successfully or not, the
\* pending target of kind k is none.
C5_SettledClearsPending ==
    lastEvent.type = "settle" => pending(State, lastEvent.kind) = None

C5_Witness ==
    /\ Ran("settle", "delete")
    /\ ~lastEvent.ok
    /\ projectToDelete = None

\* C6: when a call of kind k fails, no error leaves the handler, the failure
\* is logged, the selection is unchanged, the pending target of k is none, no
\* call is started by the handler, and a confirm of k then starts none.
C6_FailureAbsorbed ==
    \A k \in Kinds :
        (Ran("settle", k) /\ ~lastEvent.ok) =>
            /\ ~lastEvent.raised
            /\ lastEvent.logged
            /\ ~lastEvent.selection
            /\ pending(State, k) = None
            /\ lastEvent.dispatched = 0
            /\ handleConfirmDelete(State).calls = calls \/ k # "delete"
            /\ handleConfirmDetach(State).calls = calls \/ k # "detach"
            /\ handleConfirmReattach(State).calls = calls \/ k # "reattach"

C6_Witness ==
    /\ Ran("settle", "reattach")
    /\ ~lastEvent.ok
    /\ lastEvent.logged
    /\ selectedProject # None

\* C7: a call of kind k for project p is started only by a confirm of k whose
\* pending target is p; a pending target becomes p only by a click on the k
\* button of p; a cancel of k leaves no pending target of k; and a confirm of k
\* without a pending target starts no call and changes nothing.
C7_OnlyClickThenConfirmDispatches ==
    /\ lastEvent.dispatched > 0 =>
          /\ lastEvent.type = "confirm"
          /\ \A c \in inFlight(State, lastEvent.kind) :
                c.target # None /\ c.target = pending(State, lastEvent.kind)
    /\ lastEvent.opened = {}
    /\ \A k \in Kinds :
          /\ Ran("click", k) => pending(State, k) = lastEvent.target
          /\ Ran("cancel", k) => pending(State, k) = None
          /\ (Ran("confirm", k) /\ pending(State, k) = None) =>
                lastEvent.dispatched = 0
    /\ projectToDelete = None => handleConfirmDelete(State) = State
    /\ projectToDetach = None => handleConfirmDetach(State) = State
    /\ projectToReattach = None => handleConfirmReattach(State) = State

C7_Witness ==
    /\ Ran("confirm", "reattach")
    /\ lastEvent.dispatched = 0
    /\ projectToReattach = None
    /\ ~isPending["reattach"]

\* C8: a click on the k button of p2 makes p2 the pending target of k, also
\* when another project p1 was pending; nothing is kept of p1: a confirm then
\* starts one call, for p2.
C8_LastClickWins ==
    \A k \in Kinds :
        Ran("click", k) =>
            /\ pending(State, k) = lastEvent.target
            /\ ConfirmEnabled(State, k) =>
               LET t == CASE k = "delete" -> handleConfirmDelete(State)
                          [] k = "detach" -> handleConfirmDetach(State)
                          [] k = "reattach" -> handleConfirmReattach(State)
               IN  \E c \in t.calls :
                       /\ t.calls \ calls = {c}
                       /\ c.kind = k
                       /\ c.target = lastEvent.target

C8_Witness ==
    /\ Ran("click", "detach")
    /\ lastEvent.replaced
    /\ projectToDetach = lastEvent.target

\* C9: a click on the delete, detach or reattach button of a row leaves the
\* selection unchanged, on the selected row and on any other; it sets the
\* pending target of its kind and starts no call.
C9_ClickKeepsSelection ==
    lastEvent.type = "click" =>
        /\ ~lastEvent.selection
        /\ lastEvent.dispatched = 0
        /\ pending(State, lastEvent.kind) = lastEvent.target

C9_Witness ==
    /\ Ran("click", "reattach")
    /\ selectedProject # None
    /\ selectedProject # lastEvent.target

\* C10: the isPending flag of kind k is true exactly when a call of kind k
\* has been dispatched and has not settled.
C10_PendingIffInFlight ==
    \A k \in Kinds : isPending[k] <=> inFlight(State, k) # {}

C10_Witness ==
    /\ isPending["detach"]
    /\ ~isPending["delete"]
    /\ Ran("settle", "delete")
    /\ inFlight(State, "detach") # {}

\* C11: if every call settles at last, a kind in flight comes back to no
\* pending target, isPending false and no call in flight, whichever way the
\* call settles; and a dialog that is open with no call of its kind in flight
\* is not loading and has its cancel enabled, which closes it.
C11_InFlightReturnsToIdle ==
    /\ \A k \in Kinds :
           isPending[k] ~> /\ ~isPending[k]
                           /\ pending(State, k) = None
                           /\ inFlight(State, k) = {}
    /\ [](\A k \in Kinds :
             (pending(State, k) # None /\ inFlight(State, k) = {})
                 => /\ ~dialogIsLoading(State, k)
                    /\ CancelEnabled(pending(State, k)))
    /\ [](/\ pending(handleCancelDelete(State), "delete") = None
          /\ pending(cancelDetach(State), "detach") = None
          /\ pending(cancelReattach(State), "reattach") = None)

C11_Witness ==
    /\ isPending["reattach"]
    /\ projectToReattach # None
    /\ isPending["delete"]
    /\ projectToDelete = None

\* The events of one kind: click, cancel, confirm and the two settlements.
DeleteEvent ==
    DeleteClick \/ CancelDelete \/ ConfirmDelete \/ DeleteSucceeds \/ DeleteFails

DetachEvent ==
    DetachClick \/ CancelDetach \/ ConfirmDetach \/ DetachSucceeds \/ DetachFails

ReattachEvent ==
    \/ ReattachClick
    \/ CancelReattach
    \/ ConfirmReattach
    \/ ReattachSucceeds
    \/ ReattachFails

\* What one kind has: its pending target, its isPending flag and its calls.
Own(s, k) == <<pending(s, k), s.isPending[k], inFlight(s, k)>>

\* C12: an event of one kind leaves the pending target, the isPending flag and
\* the calls of the two other kinds as they were; and what a kind offers depends
\* on nothing of the other kinds: its cancel is enabled when its dialog is
\* open, its confirm when it is not in flight, its settlements when it is.
C12_KindsIndependent ==
    /\ [][/\ DeleteEvent => /\ Own(State, "detach")' = Own(State, "detach")
                             /\ Own(State, "reattach")' = Own(State, "reattach")
          /\ DetachEvent => /\ Own(State, "delete")' = Own(State, "delete")
                             /\ Own(State, "reattach")' = Own(State, "reattach")
          /\ ReattachEvent => /\ Own(State, "delete")' = Own(State, "delete")
                               /\ Own(State, "detach")' = Own(State, "detach")]_vars
    /\ [](/\ (ENABLED CancelDelete) <=> projectToDelete # None
          /\ (ENABLED CancelDetach) <=> projectToDetach # None
          /\ (ENABLED CancelReattach) <=> projectToReattach # None
          /\ (ENABLED ConfirmDelete) <=> ~isPending["delete"]
          /\ (ENABLED ConfirmDetach) <=> ~isPending["detach"]
          /\ (ENABLED ConfirmReattach) <=> ~isPending["reattach"]
          /\ (ENABLED (DeleteSucceeds \/ DeleteFails)) <=> isPending["delete"]
          /\ (ENABLED (DetachSucceeds \/ DetachFails)) <=> isPending["detach"]
          /\ (ENABLED (ReattachSucceeds \/ ReattachFails))
                 <=> isPending["reattach"]
          /\ isOpen => /\ ENABLED DeleteClick
                       /\ ENABLED DetachClick
                       /\ ENABLED ReattachClick)

\* The three kinds in flight at once, two of them on one project and the third
\* on another, with a dialog open again on yet another target.
C12_Witness ==
    \E c1 \in inFlight(State, "delete") :
        \E c2 \in inFlight(State, "detach") :
            \E c3 \in inFlight(State, "reattach") :
                /\ c1.target = c2.target
                /\ c3.target # c1.target
                /\ projectToDelete \notin {None, c1.target}

\* C13: when the list is not loading a row can be selected, the menu being open
\* or one click on the trigger away, whatever is pending or in flight; the
\* selection of a row makes that project the selected one in the same step and
\* leaves every pending target, every isPending flag and every call as they
\* were; and every call in flight can still settle afterwards.
C13_SelectionDuringFlight ==
    /\ [](~isLoading => IF isOpen THEN ENABLED SelectRow ELSE ENABLED OpenMenu)
    /\ [][\A q \in ProjectNames :
              (isOpen /\ Apply(rowOnSelect(State, q)))
                  => /\ selectedProject' = q
                     /\ UNCHANGED <<projectToDelete, projectToDetach,
                                    projectToReattach, isPending, calls>>]_vars
    /\ [](\A c \in calls :
             /\ c.kind = "delete" => ENABLED DeleteSucceeds /\ ENABLED DeleteFails
             /\ c.kind = "detach" => ENABLED DetachSucceeds /\ ENABLED DetachFails
             /\ c.kind = "reattach" =>
                    ENABLED ReattachSucceeds /\ ENABLED ReattachFails)

\* A delete of the selected project is in flight and a project other than the
\* one selected at the confirm is selected now, the dialog still open.
C13_Witness ==
    \E c \in inFlight(State, "delete") :
        /\ c.wasSelected
        /\ selectedProject \notin {None, c.target}
        /\ projectToDelete = c.target
        /\ isPending["detach"]
        /\ ~isLoading

\* C14: while isLoading is true, the selection of a row does not change the
\* selected project, the menu having been opened before the loading began or
\* not.
C14_NoSelectionWhileLoading ==
    [][(isLoading /\ SelectRow) => selectedProject' = selectedProject]_vars

\* C15: when the wizard yields a name, that name becomes the selected project
\* and the menu is closed, which is what the selection of its row does; no
\* pending target and no isPending flag changes and no call is started or
\* ended, whatever is pending or in flight.
C15_CreatedSelectsAndCloses ==
    /\ \A n \in ProjectNames : handleProjectCreated(State, n) = rowOnSelect(State, n)
    /\ lastEvent.type = "created" =>
          /\ selectedProject = lastEvent.target
          /\ lastEvent.target \in ProjectNames
          /\ ~isOpen
          /\ lastEvent.touched = {}
          /\ lastEvent.dispatched = 0
          /\ lastEvent.ended = 0

\* The wizard has yielded a name while a delete was in flight and the dialog of
\* another kind was open.
C15_Witness ==
    /\ lastEvent.type = "created"
    /\ isPending["delete"]
    /\ projectToDetach # None
    /\ ~isPending["detach"]
    /\ selectedProject # None

\* C16: a call in flight ends only by one of the two settlements of its kind;
\* a click or a cancel, of any kind, ends no call and lowers no isPending
\* flag; and the settlement of a successful delete of p clears the selection
\* exactly when p is the selected project, whatever target the delete dialog
\* shows by then, and ends the call, lowers the flag and closes the dialog.
C16_InFlightUntilSettled ==
    [][/\ \A c \in calls :
             c \notin calls' =>
                 \/ c.kind = "delete" /\ (DeleteSucceeds \/ DeleteFails)
                 \/ c.kind = "detach" /\ (DetachSucceeds \/ DetachFails)
                 \/ c.kind = "reattach" /\ (ReattachSucceeds \/ ReattachFails)
       /\ (\/ DeleteClick \/ DetachClick \/ ReattachClick
           \/ CancelDelete \/ CancelDetach \/ CancelReattach)
              => calls' = calls /\ isPending' = isPending
       /\ \A c \in inFlight(State, "delete") :
             Apply(deleteResolved(State, c))
                 => /\ selectedProject' = IF selectedProject = c.target
                                            THEN None
                                            ELSE selectedProject
                    /\ c \notin calls'
                    /\ ~isPending'["delete"]
                    /\ projectToDelete' = None]_vars

\* C17: the selected project changes only by the selection of a row, by a name
\* yielded by the wizard and by the settlement of a successful delete: no
\* click, cancel or confirm of any kind, no settlement of a detach or of a
\* reattach, no failed delete and no other handler changes it; and the
\* handlers of the clicks, cancels and confirms leave it as it is in every
\* state.
C17_SelectionChangesByThree ==
    /\ lastEvent.selection =>
          /\ Ran("settle", "delete")
          /\ lastEvent.ok
          /\ selectedProject = None
    /\ \A n \in ProjectNames :
          \A t \in {handleDeleteClick(State, n), handleDetachClick(State, n),
                    handleReattachClick(State, n), handleCancelDelete(State),
                    cancelDetach(State), cancelReattach(State),
                    handleConfirmDelete(State), handleConfirmDetach(State),
                    handleConfirmReattach(State)} :
              t.selectedProject = selectedProject
    /\ \A c \in calls :
          /\ deleteRejected(State, c).selectedProject = selectedProject
          /\ detachResolved(State, c).selectedProject = selectedProject
          /\ detachRejected(State, c).selectedProject = selectedProject
          /\ reattachResolved(State, c).selectedProject = selectedProject
          /\ reattachRejected(State, c).selectedProject = selectedProject

\* The settlement of a successful delete has cleared the selection, a reattach
\* being in flight on the project that was selected.
C17_Witness ==
    /\ Ran("settle", "delete")
    /\ lastEvent.ok
    /\ lastEvent.selection
    /\ selectedProject = None
    /\ isPending["reattach"]

\* C18, as stated: at most one call of each kind is in flight, and while one
\* is, the dialog of its kind is open with a target.
C18_OneCallDialogOpen ==
    \A k \in Kinds :
        /\ Cardinality(inFlight(State, k)) <= 1
        /\ inFlight(State, k) # {} => pending(State, k) # None

\* C18, amended: at most one call of each kind is in flight; while one is, the
\* dialog of its kind is loading and its confirm is disabled, the dialog being
\* open on the target of the call, open on another target or closed; and a
\* confirm that has started a call has started the only one of its kind.
C18_OneCallPerKind ==
    \A k \in Kinds :
        /\ Cardinality(inFlight(State, k)) <= 1
        /\ inFlight(State, k) # {} =>
              /\ dialogIsLoading(State, k)
              /\ ~ConfirmEnabled(State, k)
        /\ (Ran("confirm", k) /\ lastEvent.dispatched > 0) =>
              /\ lastEvent.dispatched = 1
              /\ Cardinality(inFlight(State, k)) = 1

\* A detach is in flight and its dialog, cancelled meanwhile, has been opened
\* again on another project.
C18_Witness ==
    /\ Ran("click", "detach")
    /\ \E c \in inFlight(State, "detach") :
           projectToDetach \notin {None, c.target}
    /\ ~ConfirmEnabled(State, "detach")

\* C19: every row renders exactly one of the detach and reattach buttons, the
\* reattach on a detached row and the detach on any other, and the delete
\* button; the row of a click on detach was not detached and that of a click
\* on reattach was, the pending target being its project; and no pending
\* target is set to a project other than by a click on the button of its kind.
C19_DetachOnAttachedRowsOnly ==
    /\ \A project \in ProjectSummary :
          /\ offers(project, "detach") # offers(project, "reattach")
          /\ offers(project, "delete")
    /\ Ran("click", "detach") =>
          /\ ~lastEvent.detached
          /\ projectToDetach = lastEvent.target
    /\ Ran("click", "reattach") =>
          /\ lastEvent.detached
          /\ projectToReattach = lastEvent.target
    /\ lastEvent.opened = {}

\* A reattach has been opened on a detached row while the detach dialog is
\* still open on the same project, opened when its row was not detached.
C19_Witness ==
    /\ Ran("click", "reattach")
    /\ lastEvent.detached
    /\ projectToReattach # None
    /\ projectToDetach = projectToReattach
    /\ projectToDelete = projectToReattach

====
